---- MODULE Spec2Model ----
(***************************************************************************)
(* Drive utilities of src/utils/generate_project_folder.js: recursive      *)
(* search by name, recursive folder copy, and the folder move functions,   *)
(* over a model of the Drive store (folders, files, containment edges in   *)
(* listing order, several parents per node allowed).                       *)
(***************************************************************************)
EXTENDS Integers, Sequences, FiniteSets, TLC

\* ------------------------------------------------------------------ bounds
\* Size of the id pool of the store (ids 0..MaxNodes-1; unused ids are free).
MaxNodes == 10
\* Number of nodes (root included) an initial store may hold.
MaxInit == 4
\* Number of calls in one run of the mutating specifications.
MaxSteps == 2

Ids == 0 .. (MaxNodes - 1)
InitIds == 0 .. (MaxInit - 1)
\* The user's root folder ("My Drive"), where DriveApp.createFolder puts folders.
Root == 0
\* JavaScript's undefined (a search that found nothing, an unassigned var).
Undefined == -1

\* Names are sequences of characters, so that indexOf is a real substring test.
RootName == <<"r">>
Names == { <<"a">>, <<"a", "b">>, <<"b">> }
NoName == << >>

\* ------------------------------------------------------------- the store
VARIABLES drive, last, steps, procs, hist

vars == <<drive, last, steps, procs, hist>>

Range(s) == { s[i] : i \in 1 .. Len(s) }

\* Folder.getFolders(): the folder children, in listing order.
getFolders(d, f) == SelectSeq(d.kids[f], LAMBDA x : d.kind[x] = "Folder")

\* Folder.getFiles(): the file children, in listing order.
getFiles(d, f) == SelectSeq(d.kids[f], LAMBDA x : d.kind[x] = "File")

\* Folder.getParents(): every folder that holds x.
getParents(d, x) == { p \in Ids : x \in Range(d.kids[p]) }

\* DriveApp.getFoldersByName(name): every folder of that name, wherever it is.
getFoldersByName(d, n) == { i \in Ids : d.kind[i] = "Folder" /\ d.name[i] = n }

\* DriveApp.getFolderById(id) resolves exactly the folders.
IsFolder(d, i) == i \in Ids /\ d.kind[i] = "Folder"

\* A removeFolder that removes nothing.
removeFolder_Noop(d, p, x) == d

\* currentFolder.removeFolder(sourceFolder)
removeFolder(d, p, x) ==
  [d EXCEPT !.kids[p] = SelectSeq(@, LAMBDA y : y # x)]

\* targetFolder.addFolder(sourceFolder): listed after the present children.
addFolder(d, p, x) ==
  IF x \in Range(d.kids[p]) THEN d ELSE [d EXCEPT !.kids[p] = Append(@, x)]

FreeIds(d) == { i \in Ids : d.kind[i] = "None" }

\* The id the store gives the next node it creates.
NextId(d) == CHOOSE i \in FreeIds(d) : \A j \in FreeIds(d) : i <= j

\* parent.createFolder(name): a new, empty folder under parent.
createFolder(d, parent, n) ==
  LET i == NextId(d) IN
  [d EXCEPT !.kind[i] = "Folder", !.name[i] = n, !.content[i] = Undefined,
            !.kids[i] = << >>, !.kids[parent] = Append(@, i)]

\* file.makeCopy(name, destination): a new file with the content of file.
makeCopy(d, file, n, target) ==
  LET i == NextId(d) IN
  [d EXCEPT !.kind[i] = "File", !.name[i] = n, !.content[i] = d.content[file],
            !.kids[i] = << >>, !.kids[target] = Append(@, i)]

\* Proper descendants of x along containment edges (a fixpoint, so that it is
\* defined on a cyclic store too).
RECURSIVE Grow(_, _)
Grow(d, S) ==
  LET T == S \cup UNION { Range(d.kids[y]) : y \in S }
  IN  IF T = S THEN S ELSE Grow(d, T)

Descendants(d, x) == Grow(d, Range(d.kids[x]))

Acyclic(d) == \A x \in Ids : x \notin Descendants(d, x)

AcyclicFrom(d, f) == \A x \in {f} \cup Descendants(d, f) : x \notin Descendants(d, x)

\* ---------------------------------------------------------------- search
\* indexOf(sub) !== -1
Contains(s, sub) ==
  \E i \in 0 .. (Len(s) - Len(sub)) : SubSeq(s, i + 1, i + Len(sub)) = sub

\* The closure variables of findFileByName / findFolderByName, plus the
\* sequence of nodes handed out by the iterators' next().
NotFoundYet == [found |-> FALSE, target |-> Undefined, visited |-> << >>]

fileMatches(d, file, fileName, partialMatch) ==
  \/ d.name[file] = fileName
  \/ partialMatch /\ Contains(d.name[file], fileName)

RECURSIVE searchFile(_, _, _, _, _)
RECURSIVE filesLoop(_, _, _, _, _, _)
RECURSIVE foldersLoopFile(_, _, _, _, _, _)

\* while (files.hasNext()) { if (found) break; ... }
filesLoop(d, files, i, fileName, partialMatch, st) ==
  IF i > Len(files) \/ st.found THEN st
  ELSE LET file == files[i]
           seen == [st EXCEPT !.visited = Append(@, file)]
           st2  == IF fileMatches(d, file, fileName, partialMatch)
                   THEN [seen EXCEPT !.found = TRUE, !.target = file]
                   ELSE seen
       IN  filesLoop(d, files, i + 1, fileName, partialMatch, st2)

\* while (folders.hasNext()) { if (found) break; search(folders.next()) }
foldersLoopFile(d, folders, i, fileName, partialMatch, st) ==
  IF i > Len(folders) \/ st.found THEN st
  ELSE LET subFolder == folders[i]
           seen == [st EXCEPT !.visited = Append(@, subFolder)]
           st2  == searchFile(d, subFolder, fileName, partialMatch, seen)
       IN  foldersLoopFile(d, folders, i + 1, fileName, partialMatch, st2)

searchFile_FoldersFirst(d, sourceFolder, fileName, partialMatch, st) ==
  filesLoop(d, getFiles(d, sourceFolder), 1, fileName, partialMatch,
    foldersLoopFile(d, getFolders(d, sourceFolder), 1, fileName, partialMatch, st))

\* The inner function search of findFileByName.
searchFile(d, sourceFolder, fileName, partialMatch, st) ==
  foldersLoopFile(d, getFolders(d, sourceFolder), 1, fileName, partialMatch,
    filesLoop(d, getFiles(d, sourceFolder), 1, fileName, partialMatch, st))

findFileByName(d, sourceFolderId, fileName, partialMatch) ==
  searchFile(d, sourceFolderId, fileName, partialMatch, NotFoundYet)

RECURSIVE searchFolder(_, _, _, _)
RECURSIVE foldersLoop(_, _, _, _, _)

\* while (folders.hasNext()) { if (found) break; test; search(subFolder) }
foldersLoop(d, folders, i, folderName, st) ==
  IF i > Len(folders) \/ st.found THEN st
  ELSE LET subFolder == folders[i]
           seen == [st EXCEPT !.visited = Append(@, subFolder)]
           st2  == IF d.name[subFolder] = folderName
                   THEN [seen EXCEPT !.found = TRUE, !.target = subFolder]
                   ELSE seen
           st3  == searchFolder(d, subFolder, folderName, st2)
       IN  foldersLoop(d, folders, i + 1, folderName, st3)

\* A search that tests every direct child before it enters any of them.
RECURSIVE levelLoop(_, _, _, _, _)
levelLoop(d, folders, i, folderName, st) ==
  IF i > Len(folders) \/ st.found THEN st
  ELSE LET subFolder == folders[i]
           seen == [st EXCEPT !.visited = Append(@, subFolder)]
           st2  == IF d.name[subFolder] = folderName
                   THEN [seen EXCEPT !.found = TRUE, !.target = subFolder]
                   ELSE seen
       IN  levelLoop(d, folders, i + 1, folderName, st2)

RECURSIVE descendLoop(_, _, _, _, _)
searchFolder_LevelFirst(d, sourceFolder, folderName, st) ==
  descendLoop(d, getFolders(d, sourceFolder), 1, folderName,
    levelLoop(d, getFolders(d, sourceFolder), 1, folderName, st))

descendLoop(d, folders, i, folderName, st) ==
  IF i > Len(folders) \/ st.found THEN st
  ELSE descendLoop(d, folders, i + 1, folderName,
         searchFolder_LevelFirst(d, folders[i], folderName, st))

\* The inner function search of findFolderByName.
searchFolder(d, sourceFolder, folderName, st) ==
  foldersLoop(d, getFolders(d, sourceFolder), 1, folderName, st)

findFolderByName(d, sourceFolderId, folderName) ==
  searchFolder(d, sourceFolderId, folderName, NotFoundYet)

\* ------------------------------------------------------------------ copy
RECURSIVE copyFolder(_, _, _)
RECURSIVE copyFiles(_, _, _, _)
RECURSIVE copyFolders(_, _, _, _)

\* while (files.hasNext()) file.makeCopy(file.getName(), targetFolder)
copyFiles(d, files, i, targetFolder) ==
  IF i > Len(files) THEN d
  ELSE copyFiles(makeCopy(d, files[i], d.name[files[i]], targetFolder),
                 files, i + 1, targetFolder)

\* while (folders.hasNext()) { newFolder = targetFolder.createFolder(name);
\*                             copyFolder(subFolder, newFolder) }
copyFolders(d, folders, i, targetFolder) ==
  IF i > Len(folders) THEN d
  ELSE LET subFolder == folders[i]
           newFolder == NextId(d)
           d1 == createFolder(d, targetFolder, d.name[subFolder])
       IN  copyFolders(copyFolder(d1, subFolder, newFolder),
                       folders, i + 1, targetFolder)

\* A copy that puts every copied file into the top target folder.
copyFolder_Flat(d, folderToCopy, targetFolder) ==
  copyFiles(d, getFiles(d, folderToCopy), 1, targetFolder)

copyFolder(d, folderToCopy, targetFolder) ==
  copyFolders(copyFiles(d, getFiles(d, folderToCopy), 1, targetFolder),
              getFolders(d, folderToCopy), 1, targetFolder)

\* Number of nodes copyFolder creates: one per containment path below f.
RECURSIVE PathCount(_, _)
RECURSIVE PathCountSeq(_, _, _)
PathCountSeq(d, s, i) ==
  IF i > Len(s) THEN 0 ELSE 1 + PathCount(d, s[i]) + PathCountSeq(d, s, i + 1)

PathCount(d, f) ==
  IF d.kind[f] = "Folder" THEN PathCountSeq(d, d.kids[f], 1) ELSE 0

\* ------------------------------------------------------------------ move
\* while (currentFolders.hasNext()) currentFolders.next().removeFolder(source)
detachAll(d, currentFolders, sourceFolder) ==
  [d EXCEPT !.kids = [p \in Ids |->
     IF p \in currentFolders
     THEN SelectSeq(d.kids[p], LAMBDA y : y # sourceFolder)
     ELSE d.kids[p]]]

\* A move that leaves the folder only one of its current parents.
moveFolderToFolderById_OneParent(d, sourceFolderId, targetFolderId) ==
  LET ps == getParents(d, sourceFolderId)
      one == IF ps = {} THEN {} ELSE { CHOOSE p \in ps : \A q \in ps : p <= q }
  IN  addFolder(detachAll(d, one, sourceFolderId), targetFolderId, sourceFolderId)

moveFolderToFolderById(d, sourceFolderId, targetFolderId) ==
  addFolder(detachAll(d, getParents(d, sourceFolderId), sourceFolderId),
            targetFolderId, sourceFolderId)

\* The outcome of a call: the store it leaves, how it ended, and the number
\* of removeFolder and addFolder calls it made.
Outcome(d, e, nd, na) == [drive |-> d, err |-> e, nDetach |-> nd, nAttach |-> na]

\* A variant whose collision check is skipped.
moveFolderToFolderByName_NoCollisionCheck(d, sourceFolderName, destinationFolderName, isUnique, sourceFolder, targetFolder) ==
  LET nSource == Cardinality(getFoldersByName(d, sourceFolderName))
      nTarget == Cardinality(getFoldersByName(d, destinationFolderName))
      ps == IF sourceFolder = Undefined THEN {} ELSE getParents(d, sourceFolder)
  IN  IF isUnique /\ nSource > 1 THEN Outcome(d, "AmbiguousSource", 0, 0)
      ELSE IF nTarget > 1 THEN Outcome(d, "AmbiguousDestination", 0, 0)
      ELSE IF sourceFolder = Undefined THEN Outcome(d, "TypeError", 0, 0)
      ELSE IF targetFolder = Undefined
        THEN Outcome(detachAll(d, ps, sourceFolder), "TypeError", Cardinality(ps), 0)
      ELSE Outcome(addFolder(detachAll(d, ps, sourceFolder), targetFolder, sourceFolder),
                   "none", Cardinality(ps), 1)

\* A variant that tests the destination before the source.
moveFolderToFolderByName_DestinationFirst(d, sourceFolderName, destinationFolderName, isUnique, sourceFolder, targetFolder) ==
  LET nSource == Cardinality(getFoldersByName(d, sourceFolderName))
      nTarget == Cardinality(getFoldersByName(d, destinationFolderName))
      ps == IF sourceFolder = Undefined THEN {} ELSE getParents(d, sourceFolder)
      contents == IF targetFolder = Undefined THEN << >> ELSE getFolders(d, targetFolder)
  IN  IF nTarget > 1 THEN Outcome(d, "AmbiguousDestination", 0, 0)
      ELSE IF \E i \in 1 .. Len(contents) : d.name[contents[i]] = sourceFolderName
        THEN Outcome(d, "Collision", 0, 0)
      ELSE IF isUnique /\ nSource > 1 THEN Outcome(d, "AmbiguousSource", 0, 0)
      ELSE IF sourceFolder = Undefined THEN Outcome(d, "TypeError", 0, 0)
      ELSE IF targetFolder = Undefined
        THEN Outcome(detachAll(d, ps, sourceFolder), "TypeError", Cardinality(ps), 0)
      ELSE Outcome(addFolder(detachAll(d, ps, sourceFolder), targetFolder, sourceFolder),
                   "none", Cardinality(ps), 1)

\* sourceFolder and targetFolder are the first folders the two name lookups
\* hand out (Undefined when the lookup is empty, so that the var stays unset).
moveFolderToFolderByName(d, sourceFolderName, destinationFolderName, isUnique, sourceFolder, targetFolder) ==
  LET nSource == Cardinality(getFoldersByName(d, sourceFolderName))
      nTarget == Cardinality(getFoldersByName(d, destinationFolderName))
      ps == IF sourceFolder = Undefined THEN {} ELSE getParents(d, sourceFolder)
      contents == IF targetFolder = Undefined THEN << >> ELSE getFolders(d, targetFolder)
  IN  \* line 172: throw 'Source Folder Name ... not unique'
      IF isUnique /\ nSource > 1 THEN Outcome(d, "AmbiguousSource", 0, 0)
      \* line 181: throw 'Destination Folder Name ... not unique'
      ELSE IF nTarget > 1 THEN Outcome(d, "AmbiguousDestination", 0, 0)
      \* line 188: throw '... not unique in destination folder'
      ELSE IF \E i \in 1 .. Len(contents) : d.name[contents[i]] = sourceFolderName
        THEN Outcome(d, "Collision", 0, 0)
      \* line 197: sourceFolder is undefined, getParents throws a TypeError
      ELSE IF sourceFolder = Undefined THEN Outcome(d, "TypeError", 0, 0)
      \* lines 198-202: every parent is removed, then targetFolder is
      \* undefined and addFolder throws a TypeError
      ELSE IF targetFolder = Undefined
        THEN Outcome(detachAll(d, ps, sourceFolder), "TypeError", Cardinality(ps), 0)
      ELSE Outcome(addFolder(detachAll(d, ps, sourceFolder), targetFolder, sourceFolder),
                   "none", Cardinality(ps), 1)

\* folder.moveTo(parentFolder): the folder's only parent becomes parentFolder.
folderMoveTo(d, folder, parentFolder) ==
  IF getParents(d, folder) = {parentFolder} THEN d
  ELSE addFolder(detachAll(d, getParents(d, folder), folder), parentFolder, folder)

\* The store and the folder findOrCreateFolder leaves and returns.
Returned(d, f) == [drive |-> d, folder |-> f]

\* A variant that always creates the folder.
findOrCreateFolder_AlwaysCreate(d, parentFolderId, folderName, moveIt) ==
  LET folder == NextId(d)
      d1 == createFolder(d, Root, folderName)
  IN  Returned(IF moveIt THEN folderMoveTo(d1, folder, parentFolderId) ELSE d1, folder)

findOrCreateFolder(d, parentFolderId, folderName, moveIt) ==
  LET locatedFolder == findFolderByName(d, parentFolderId, folderName).target
      folder == IF locatedFolder # Undefined THEN locatedFolder ELSE NextId(d)
      d1 == IF locatedFolder # Undefined THEN d ELSE createFolder(d, Root, folderName)
  IN  Returned(IF moveIt THEN folderMoveTo(d1, folder, parentFolderId) ELSE d1, folder)

\* -------------------------------------------------------- initial stores
NonRoot == InitIds \ {Root}

RECURSIVE SortedSeq(_)
SortedSeq(S) ==
  IF S = {} THEN << >>
  ELSE LET m == CHOOSE x \in S : \A y \in S : x <= y
       IN  <<m>> \o SortedSeq(S \ {m})

Reverse(s) == [i \in 1 .. Len(s) |-> s[Len(s) + 1 - i]]

\* The store whose nodes are InitIds, with kinds k, names nm and parents par;
\* a folder lists its children by ascending id, or by descending id when rev.
\* A file's content is a payload of its own.
MakeDrive(k, nm, par, rev) ==
  [kind    |-> [i \in Ids |-> IF i = Root THEN "Folder"
                              ELSE IF i \in InitIds THEN k[i] ELSE "None"],
   name    |-> [i \in Ids |-> IF i = Root THEN RootName
                              ELSE IF i \in InitIds THEN nm[i] ELSE NoName],
   content |-> [i \in Ids |-> IF i \in NonRoot /\ k[i] = "File" THEN i ELSE Undefined],
   kids    |-> [p \in Ids |->
                  LET s == SortedSeq({ c \in NonRoot : p \in par[c] })
                  IN  IF rev THEN Reverse(s) ELSE s]]

\* Parents are folders of a smaller id, so that every initial store is acyclic;
\* a node has one parent or two.
ParentChoices(k, c) ==
  { S \in SUBSET { p \in InitIds : p < c /\ (p = Root \/ k[p] = "Folder") } :
      Cardinality(S) \in {1, 2} }

RECURSIVE ParentMapsUpTo(_, _)
ParentMapsUpTo(k, c) ==
  IF c = 0 THEN { [x \in {} |-> {}] }
  ELSE { par @@ (c :> S) : par \in ParentMapsUpTo(k, c - 1), S \in ParentChoices(k, c) }

ParentMaps(k) == ParentMapsUpTo(k, MaxInit - 1)

InitDrives(kinds, names, revs) ==
  UNION { { MakeDrive(k, nm, par, rev) :
              nm \in [NonRoot -> names], par \in ParentMaps(k), rev \in revs } :
          k \in [NonRoot -> kinds] }

\* The names the nodes of a searched store carry: with the names searched
\* for (Names), each is an exact match, a partial match only, or no match.
NodeNames == { <<"a">>, <<"a", "b">> }

\* The names the mutating calls are given, and their folders carry.
FolderNames == { <<"a">>, <<"b">> }

\* ------------------------------------------------------------- the calls
\* What is kept of the call before the last one.
Summary(l) == [op |-> l.op, a |-> l.a, b |-> l.b, n |-> l.n, flag |-> l.flag,
               result |-> l.result, created |-> l.created]

NoSummary == [op |-> "none", a |-> Undefined, b |-> Undefined, n |-> NoName,
              flag |-> FALSE, result |-> Undefined, created |-> {}]

\* The record of the last call: its name and arguments, what it returned or
\* how it failed, the nodes its iterators handed out, the number of
\* removeFolder/addFolder calls, the ids of the nodes it created, the store it
\* started from, and the call before it.
Call(op, a, b, n, m, flag, result, err, visited, nd, na) ==
  [op |-> op, a |-> a, b |-> b, n |-> n, m |-> m, flag |-> flag,
   result |-> result, err |-> err, visited |-> visited,
   nDetach |-> nd, nAttach |-> na, created |-> FreeIds(drive) \ FreeIds(drive'),
   pre |-> drive, prior |-> Summary(last)]

NoCall(d) ==
  [op |-> "none", a |-> Undefined, b |-> Undefined, n |-> NoName, m |-> NoName,
   flag |-> FALSE, result |-> Undefined, err |-> "none", visited |-> << >>,
   nDetach |-> 0, nAttach |-> 0, created |-> {}, pre |-> d, prior |-> NoSummary]

Idle == [p \in {1, 2} |-> [pc |-> "idle", source |-> Undefined, target |-> Undefined,
                           currentFolders |-> {}]]
NoHist == [interleaved |-> FALSE, orphaned |-> FALSE]

\* The folder a name lookup hands out first: any of the matches.
FirstOf(S) == IF S = {} THEN {Undefined} ELSE S

\* A search leaves the store as it is, so one search a run covers them all.
FindFile ==
  \E f \in Ids, n \in Names, partialMatch \in BOOLEAN :
    /\ last.op = "none"
    /\ IsFolder(drive, f)
    /\ AcyclicFrom(drive, f)
    /\ UNCHANGED <<drive, steps, procs, hist>>
    /\ LET st == findFileByName(drive, f, n, partialMatch)
       IN  last' = [Call("findFile", f, Undefined, n, NoName, partialMatch,
                             st.target, "none", st.visited, 0, 0)
                          EXCEPT !.prior = NoSummary]

FindFolder ==
  \E f \in Ids, n \in Names :
    /\ last.op = "none"
    /\ IsFolder(drive, f)
    /\ AcyclicFrom(drive, f)
    /\ UNCHANGED <<drive, steps, procs, hist>>
    /\ LET st == findFolderByName(drive, f, n)
       IN  last' = [Call("findFolder", f, Undefined, n, NoName, FALSE,
                             st.target, "none", st.visited, 0, 0)
                          EXCEPT !.prior = NoSummary]

MoveById ==
  \E s \in Ids, t \in Ids :
    /\ steps < MaxSteps
    /\ IsFolder(drive, s)
    /\ IsFolder(drive, t)
    /\ drive' = moveFolderToFolderById(drive, s, t)
    /\ last' = Call("moveById", s, t, NoName, NoName, FALSE, Undefined, "none",
                    << >>, Cardinality(getParents(drive, s)), 1)
    /\ steps' = steps + 1
    /\ UNCHANGED <<procs, hist>>

MoveByName ==
  \E sn \in FolderNames, dn \in FolderNames, isUnique \in BOOLEAN :
    \E sf \in FirstOf(getFoldersByName(drive, sn)),
       tf \in FirstOf(getFoldersByName(drive, dn)) :
      /\ steps < MaxSteps
      /\ LET o == moveFolderToFolderByName(drive, sn, dn, isUnique, sf, tf)
         IN  /\ drive' = o.drive
             /\ last' = Call("moveByName", sf, tf, sn, dn, isUnique, Undefined,
                             o.err, << >>, o.nDetach, o.nAttach)
      /\ steps' = steps + 1
      /\ UNCHANGED <<procs, hist>>

FindOrCreate ==
  \E p \in Ids, n \in FolderNames, moveIt \in BOOLEAN :
    /\ steps < MaxSteps
    /\ IsFolder(drive, p)
    /\ AcyclicFrom(drive, p)
    /\ findFolderByName(drive, p, n).found \/ FreeIds(drive) # {}
    /\ LET r == findOrCreateFolder(drive, p, n, moveIt)
       IN  /\ drive' = r.drive
           /\ last' = Call("findOrCreate", p, Undefined, n, NoName, moveIt,
                           r.folder, "none", << >>, 0, 0)
    /\ steps' = steps + 1
    /\ UNCHANGED <<procs, hist>>

CopyFolder ==
  \E f \in Ids, t \in Ids :
    /\ steps < MaxSteps
    /\ IsFolder(drive, f)
    /\ IsFolder(drive, t)
    /\ AcyclicFrom(drive, f)
    /\ t \notin {f} \cup Descendants(drive, f)
    /\ PathCount(drive, f) <= Cardinality(FreeIds(drive))
    /\ drive' = copyFolder(drive, f, t)
    /\ last' = Call("copy", f, t, NoName, NoName, FALSE, Undefined, "none",
                    << >>, 0, 0)
    /\ steps' = steps + 1
    /\ UNCHANGED <<procs, hist>>

\* ------------------------------------------------- the search specification
InitSearch ==
  /\ drive \in InitDrives({"File", "Folder"}, NodeNames, BOOLEAN)
  /\ last = NoCall(drive)
  /\ steps = 0
  /\ procs = Idle
  /\ hist = NoHist

NextSearch == FindFile \/ FindFolder

SpecSearch == InitSearch /\ [][NextSearch]_vars

\* ----------------------------------------------- the mutating specification
Init ==
  /\ drive \in InitDrives({"File", "Folder"}, FolderNames, {FALSE})
  /\ last = NoCall(drive)
  /\ steps = 0
  /\ procs = Idle
  /\ hist = NoHist

Next == MoveById \/ MoveByName \/ FindOrCreate \/ CopyFolder

Spec == Init /\ [][Next]_vars

\* ---------------------------------- two moveFolderToFolderById calls at once
\* Two executions of moveFolderToFolderById on the same folder, each a
\* sequence of store calls: getParents (line 144), one removeFolder per parent
\* handed out (line 147), addFolder (line 149).
Other(p) == 3 - p

MidCall(p) == procs[p].pc = "detach"

Note(p, d) ==
  [interleaved |-> hist.interleaved \/ MidCall(Other(p)),
   orphaned    |-> hist.orphaned \/ getParents(d, procs[p].source) = {}]

GetParents(p) ==
  /\ procs[p].pc = "start"
  /\ procs' = [procs EXCEPT ![p].pc = "detach",
                 ![p].currentFolders = getParents(drive, procs[p].source)]
  /\ hist' = Note(p, drive)
  /\ UNCHANGED <<drive, last, steps>>

RemoveFolder(p) ==
  /\ procs[p].pc = "detach"
  /\ \E currentFolder \in procs[p].currentFolders :
       /\ drive' = removeFolder(drive, currentFolder, procs[p].source)
       /\ procs' = [procs EXCEPT ![p].currentFolders = @ \ {currentFolder}]
  /\ hist' = Note(p, drive')
  /\ UNCHANGED <<last, steps>>

AddFolder(p) ==
  /\ procs[p].pc = "detach"
  /\ procs[p].currentFolders = {}
  /\ drive' = addFolder(drive, procs[p].target, procs[p].source)
  /\ procs' = [procs EXCEPT ![p].pc = "done"]
  /\ hist' = Note(p, drive')
  /\ UNCHANGED <<last, steps>>

InitConc ==
  /\ drive \in InitDrives({"Folder"}, { <<"a">> }, {FALSE})
  /\ last = NoCall(drive)
  /\ steps = 0
  /\ \E s \in InitIds, t1 \in InitIds, t2 \in InitIds :
       /\ t1 # t2
       /\ procs = [p \in {1, 2} |->
                     [pc |-> "start", source |-> s,
                      target |-> IF p = 1 THEN t1 ELSE t2, currentFolders |-> {}]]
  /\ hist = NoHist

NextConc == \E p \in {1, 2} : GetParents(p) \/ RemoveFolder(p) \/ AddFolder(p)

SpecConc == InitConc /\ [][NextConc]_vars

\* ------------------------------------------------------ search properties
\* The nodes below f in depth-first pre-order: the files of a folder in listing
\* order, then each subfolder in listing order, followed by what is below it.
RECURSIVE PreOrder(_, _)
RECURSIVE PreOrderSubs(_, _, _)
PreOrderSubs(d, subs, i) ==
  IF i > Len(subs) THEN << >>
  ELSE <<subs[i]>> \o PreOrder(d, subs[i]) \o PreOrderSubs(d, subs, i + 1)

PreOrder(d, f) == getFiles(d, f) \o PreOrderSubs(d, getFolders(d, f), 1)

\* The folders below f in depth-first pre-order.
PreOrderFolders(d, f) == SelectSeq(PreOrder(d, f), LAMBDA x : d.kind[x] = "Folder")

\* n occurs in s: s is some u, then n, then some v.
Occurs(n, s) ==
  \E u \in 0 .. Len(s), v \in 0 .. Len(s) :
    /\ u + Len(n) + v = Len(s)
    /\ \A j \in 1 .. Len(n) : s[u + j] = n[j]

Least(S) == CHOOSE x \in S : \A y \in S : x <= y

\* The places in the pre-order of the files the last findFile call looks for.
FileHits ==
  LET d == last.pre
      order == PreOrder(d, last.a)
  IN  { i \in 1 .. Len(order) :
          /\ d.kind[order[i]] = "File"
          /\ \/ d.name[order[i]] = last.n
             \/ last.flag /\ Occurs(last.n, d.name[order[i]]) }

\* C5: findFileByName returns the first matching file in depth-first pre-order
\* (a folder's files before its subfolders, both in listing order; equal name,
\* or name containing fileName when partialMatch), hands out no node after the
\* match, never returns a folder, and returns undefined exactly when no file
\* below the folder matches.
C5_FindFileFirstInPreOrder ==
  last.op = "findFile" =>
    LET d == last.pre
        order == PreOrder(d, last.a)
    IN  IF FileHits = {}
        THEN last.result = Undefined /\ last.visited = order
        ELSE /\ last.result = order[Least(FileHits)]
             /\ last.visited = SubSeq(order, 1, Least(FileHits))
             /\ d.kind[last.result] = "File"

\* C5 witness: a partial match found inside a subfolder whose own name equals
\* fileName, with a later matching file that is never handed out.
C5_Witness ==
  /\ last.op = "findFile"
  /\ last.flag
  /\ Cardinality(FileHits) >= 2
  /\ last.result # Undefined
  /\ last.pre.name[last.result] # last.n
  /\ \E i \in 1 .. Len(last.visited) :
       /\ last.pre.kind[last.visited[i]] = "Folder"
       /\ last.pre.name[last.visited[i]] = last.n
  /\ Len(last.visited) < Len(PreOrder(last.pre, last.a))

\* The direct folder children of the searched folder that carry the name.
DirectHits ==
  LET subs == getFolders(last.pre, last.a)
  IN  { subs[i] : i \in { j \in 1 .. Len(subs) : last.pre.name[subs[j]] = last.n } }

\* C6 as stated: when a direct folder child of the searched folder is named
\* folderName, findFolderByName returns such a direct child, whatever the
\* earlier-listed siblings contain.
C6_DirectChildWins ==
  (last.op = "findFolder" /\ DirectHits # {}) => last.result \in DirectHits

\* C6 amended: findFolderByName returns the first folder of that exact name in
\* depth-first pre-order (each child is tested and then entered before the
\* next sibling is tested), hands out no folder after it, and returns
\* undefined exactly when no folder below carries the name.
C6_FindFolderFirstInPreOrder ==
  last.op = "findFolder" =>
    LET d == last.pre
        order == PreOrderFolders(d, last.a)
        hits == { i \in 1 .. Len(order) : d.name[order[i]] = last.n }
    IN  IF hits = {}
        THEN last.result = Undefined /\ last.visited = order
        ELSE /\ last.result = order[Least(hits)]
             /\ last.visited = SubSeq(order, 1, Least(hits))

\* C6 witness: a direct child carries the name, and the folder returned is a
\* descendant of an earlier-listed sibling.
C6_Witness ==
  /\ last.op = "findFolder"
  /\ DirectHits # {}
  /\ last.result # Undefined
  /\ last.result \notin DirectHits
  /\ last.pre.name[last.result] = last.n

\* -------------------------------------------------------- move properties
Occurrences(q, x) == Cardinality({ i \in 1 .. Len(q) : q[i] = x })

Without(q, x) == SelectSeq(q, LAMBDA y : y # x)

\* C1: after moveFolderToFolderById(source, target) the parents of source are
\* exactly {target}: every edge into source that existed before is gone, one
\* edge target -> source exists, and no other edge has changed.
C1_MoveByIdSingleParent ==
  last.op = "moveById" =>
    /\ getParents(drive, last.a) = {last.b}
    /\ Occurrences(drive.kids[last.b], last.a) = 1
    /\ \A p \in getParents(last.pre, last.a) \ {last.b} :
         last.a \notin Range(drive.kids[p])
    /\ \A p \in Ids : Without(drive.kids[p], last.a) = Without(last.pre.kids[p], last.a)

\* C1 witness: the moved folder had two or more parents, none of them the
\* target.
C1_Witness ==
  /\ last.op = "moveById"
  /\ Cardinality(getParents(last.pre, last.a)) >= 2
  /\ last.b \notin getParents(last.pre, last.a)
  /\ last.b # last.a
  /\ getParents(drive, last.a) = {last.b}

\* C2: a moveFolderToFolderByName call that fails (a name without a folder, an
\* ambiguous name, a collision) leaves every containment edge as it was.
C2_FailedMoveByNameLeavesGraph ==
  (last.op = "moveByName" /\ last.err # "none") => drive.kids = last.pre.kids

SourceMatches == Cardinality(getFoldersByName(last.pre, last.n))
DestinationMatches == Cardinality(getFoldersByName(last.pre, last.m))

\* C3 as stated: a destination name with two or more folders always ends in
\* the destination-not-unique error, whatever isUnique is, with the edges
\* unchanged; the source-not-unique error needs isUnique and two or more
\* source folders.
C3_DestinationAlwaysReported ==
  last.op = "moveByName" =>
    /\ DestinationMatches >= 2 =>
         (last.err = "AmbiguousDestination" /\ drive.kids = last.pre.kids)
    /\ last.err = "AmbiguousSource" => (last.flag /\ SourceMatches >= 2)

\* C3 amended: a destination name with two or more folders always fails and
\* leaves the edges unchanged; the error is the destination-not-unique one,
\* except that with isUnique and two or more source folders the
\* source-not-unique error is raised first. The source-not-unique error is
\* raised exactly when isUnique holds and the source name has two or more
\* folders.
C3_AmbiguousNamesReported ==
  last.op = "moveByName" =>
    /\ DestinationMatches >= 2 =>
         /\ drive.kids = last.pre.kids
         /\ last.err = IF last.flag /\ SourceMatches >= 2
                       THEN "AmbiguousSource" ELSE "AmbiguousDestination"
    /\ last.err = "AmbiguousSource" <=> (last.flag /\ SourceMatches >= 2)

\* C3 witness: both names (different ones) have two folders each and isUnique
\* is set: the call fails on the source name.
C3_Witness ==
  /\ last.op = "moveByName"
  /\ last.n # last.m
  /\ DestinationMatches >= 2
  /\ SourceMatches >= 2
  /\ last.flag
  /\ last.err = "AmbiguousSource"
  /\ drive.kids = last.pre.kids

\* The only folder of the destination name holds a folder named as the source.
SoleDestinationHoldsName ==
  /\ last.op = "moveByName"
  /\ DestinationMatches = 1
  /\ \E c \in Range(getFolders(last.pre, last.b)) : last.pre.name[c] = last.n

\* C4 as stated: when the only destination folder already holds a folder of
\* the source name, the call fails with the collision error and makes no
\* removeFolder and no addFolder call.
C4_CollisionAlwaysReported ==
  SoleDestinationHoldsName =>
    (last.err = "Collision" /\ last.nDetach = 0 /\ last.nAttach = 0)

\* C4 amended: in that case the call makes no removeFolder and no addFolder
\* call and leaves the edges unchanged; it fails with the collision error,
\* except that with isUnique and two or more source folders the
\* source-not-unique error is raised first.
C4_CollisionBeforeMutation ==
  SoleDestinationHoldsName =>
    /\ last.nDetach = 0
    /\ last.nAttach = 0
    /\ drive.kids = last.pre.kids
    /\ last.err = IF last.flag /\ SourceMatches >= 2
                  THEN "AmbiguousSource" ELSE "Collision"

\* C4 witness: the same-named folder in the destination is the source folder
\* itself, and the call fails with the collision error.
C4_Witness ==
  /\ SoleDestinationHoldsName
  /\ last.a \in Range(getFolders(last.pre, last.b))
  /\ last.err = "Collision"
  /\ last.nDetach = 0
  /\ last.nAttach = 0

\* C9: no folder is reachable from itself along containment edges, after any
\* sequence of calls from an acyclic store.
C9_NoCycles == Acyclic(drive)

\* -------------------------------------------------------- copy properties
\* What a sequence of children looks like from outside: the names and contents
\* of its files, and the names and shapes of its folders, each in listing order.
RECURSIVE Shape(_, _)
Shape(d, q) ==
  LET files == SelectSeq(q, LAMBDA x : d.kind[x] = "File")
      folders == SelectSeq(q, LAMBDA x : d.kind[x] = "Folder")
  IN  [files   |-> [i \in 1 .. Len(files) |->
                      <<d.name[files[i]], d.content[files[i]]>>],
       folders |-> [i \in 1 .. Len(folders) |->
                      <<d.name[folders[i]], Shape(d, d.kids[folders[i]])>>]]

Exists(d) == Ids \ FreeIds(d)

\* The children the target folder has gained in the last call.
Gained ==
  SubSeq(drive.kids[last.b], Len(last.pre.kids[last.b]) + 1, Len(drive.kids[last.b]))

\* The last call was copyFolder, and: every node it created has an id that was
\* free before, exactly one parent, and is below the target; the new children
\* of the target follow its old ones and look exactly like the children of the
\* source (same names, file contents and nesting); no node that existed before
\* has changed its kind, name, content or children, but for the target's new
\* children, so that no node below the source has gained or lost a parent.
CopyIsFaithful ==
  LET d == last.pre
  IN  /\ last.created \subseteq FreeIds(d)
      /\ \A x \in last.created :
           /\ Cardinality(getParents(drive, x)) = 1
           /\ getParents(drive, x) \subseteq {last.b} \cup last.created
           /\ Range(drive.kids[x]) \subseteq last.created
      /\ SubSeq(drive.kids[last.b], 1, Len(d.kids[last.b])) = d.kids[last.b]
      /\ Range(Gained) \subseteq last.created
      /\ Shape(drive, Gained) = Shape(d, d.kids[last.a])
      /\ \A x \in Exists(d) :
           /\ drive.kind[x] = d.kind[x]
           /\ drive.name[x] = d.name[x]
           /\ drive.content[x] = d.content[x]
           /\ x # last.b => drive.kids[x] = d.kids[x]
      /\ \A x \in {last.a} \cup Descendants(d, last.a) :
           getParents(drive, x) = getParents(d, x)

\* The last two calls were the same copyFolder call.
CopiedTwice ==
  /\ last.op = "copy"
  /\ last.prior.op = "copy"
  /\ last.prior.a = last.a
  /\ last.prior.b = last.b

\* After the second of two equal copies the target holds, for every folder
\* directly in the source, two new folders of its name for each such source
\* folder, all of them different nodes.
SecondCopyIsIndependent ==
  /\ last.created \cap last.prior.created = {}
  /\ \A s \in Range(getFolders(last.pre, last.a)) :
       Cardinality({ c \in Range(getFolders(drive, last.b)) :
                       /\ c \in last.created \cup last.prior.created
                       /\ drive.name[c] = last.pre.name[s] })
         = 2 * Cardinality({ c \in Range(getFolders(last.pre, last.a)) :
                               last.pre.name[c] = last.pre.name[s] })

\* C7 as stated: copyFolder creates exactly one node for every file and folder
\* below the source, and a second run adds a second, independent set.
C7_OneCopyPerNode ==
  last.op = "copy" =>
    /\ CopyIsFaithful
    /\ Cardinality(last.created) = Cardinality(Descendants(last.pre, last.a))
    /\ CopiedTwice => SecondCopyIsIndependent

\* C7 amended: copyFolder creates exactly one node for every containment path
\* from the source down to a file or folder (a node that two folders below the
\* source hold is copied once under each), and a second run adds a second,
\* independent set.
C7_OneCopyPerPath ==
  last.op = "copy" =>
    /\ CopyIsFaithful
    /\ Cardinality(last.created) = PathCount(last.pre, last.a)
    /\ CopiedTwice => SecondCopyIsIndependent

\* C7 witness: the second of two equal copies of a folder that holds a folder
\* and a file, the file being held by that subfolder too.
C7_Witness ==
  /\ CopiedTwice
  /\ getFolders(last.pre, last.a) # << >>
  /\ getFiles(last.pre, last.a) # << >>
  /\ Cardinality(last.created) > Cardinality(Descendants(last.pre, last.a))
  /\ Cardinality(last.prior.created) = Cardinality(last.created)

\* ------------------------------------------------ findOrCreate properties
\* The last two calls were the same findOrCreateFolder(parent, name, true)
\* call, and the first of them created the folder.
CreatedThenCalledAgain ==
  /\ last.op = "findOrCreate"
  /\ last.flag
  /\ last.prior.op = "findOrCreate"
  /\ last.prior.flag
  /\ last.prior.a = last.a
  /\ last.prior.n = last.n
  /\ last.prior.created # {}

\* C8: findOrCreateFolder(parent, name, true), when no folder of that name is
\* below parent, creates exactly one folder, of that name, and leaves it with
\* the parents {parent}; the same call made again returns that folder, creates
\* nothing and leaves its parents {parent}.
C8_FindOrCreateIdempotent ==
  (last.op = "findOrCreate" /\ last.flag) =>
    LET d == last.pre
        below == { x \in Descendants(d, last.a) :
                     d.kind[x] = "Folder" /\ d.name[x] = last.n }
    IN  /\ below = {} =>
              /\ last.created = {last.result}
              /\ Exists(drive) = Exists(d) \cup {last.result}
              /\ drive.kind[last.result] = "Folder"
              /\ drive.name[last.result] = last.n
              /\ getParents(drive, last.result) = {last.a}
        /\ CreatedThenCalledAgain =>
              /\ last.result = last.prior.result
              /\ last.created = {}
              /\ Exists(drive) = Exists(d)
              /\ getParents(drive, last.result) = {last.a}

\* C8 witness: the second call, for a parent other than the root folder in
\* which the first call created the folder.
C8_Witness ==
  /\ CreatedThenCalledAgain
  /\ last.a # Root
  /\ last.result = last.prior.result
  /\ getParents(drive, last.result) = {last.a}

\* ------------------------------------------------ interleaved moves
BothDone == procs[1].pc = "done" /\ procs[2].pc = "done"

\* C10: two moveFolderToFolderById calls on one folder with different targets:
\* when both have returned the folder's parents are among the two targets and
\* at least one; when the calls did not interleave it has exactly one parent.
\* (That an interleaving can leave it without a parent on the way, and with
\* both targets as parents at the end, is the witness.)
C10_SequentialMovesLeaveOneParent ==
  BothDone =>
    LET ps == getParents(drive, procs[1].source)
    IN  /\ ps # {}
        /\ ps \subseteq {procs[1].target, procs[2].target}
        /\ ~hist.interleaved => Cardinality(ps) = 1

\* C10 witness: both calls have returned, they interleaved, the folder had no
\* parent at some point on the way, and it ends with both targets as parents.
C10_Witness ==
  /\ BothDone
  /\ hist.interleaved
  /\ hist.orphaned
  /\ getParents(drive, procs[1].source) = {procs[1].target, procs[2].target}
  /\ getParents(last.pre, procs[1].source) # {}

====
